---- MODULE Spec2Model ----
(***************************************************************************)
(* Model of the alternating-pin AC solenoid switch driver                  *)
(* (src/src/models/solenoid.py, class Solenoid).                           *)
(*                                                                         *)
(* The driver runs on a single-threaded asyncio event loop.  Every `await` *)
(* on the board, on a pin, on a sleep or on a task is a suspension point;  *)
(* the code between two suspension points runs atomically.  One action of  *)
(* this model is one such atomic run of one coroutine.  Program positions  *)
(* are named after the source line of the await the coroutine is suspended *)
(* at ("L141" = suspended in `await pin1_gpio.set(True)` of line 141).     *)
(*                                                                         *)
(* Task.cancel() on a task that is not done marks the task; the next time  *)
(* the task is stepped, CancelledError is thrown into the coroutine at the *)
(* await it is suspended at (or, when the coroutine never started, the     *)
(* task ends cancelled without running any code of the coroutine).         *)
(*                                                                         *)
(* The board is external: each lookup and each pin write is a suspension   *)
(* point that either completes (the write then reaches the pin) or raises  *)
(* a hardware I/O error (the pin keeps its level).  A write interrupted by *)
(* a cancellation may or may not have reached the pin.  The framework may  *)
(* invoke set_position and close while earlier calls are still suspended.  *)
(*                                                                         *)
(* Specifications:                                                         *)
(*   Spec       the calls on a driver and its alternation tasks;           *)
(*   LiveSpec   Spec under the fairness of the event loop;                 *)
(*   ConfigSpec validate_config and new, over every configuration;         *)
(*   TimedSpec  the alternation loop of a switched-on driver with a        *)
(*              stopwatch on the time each pin stays high.                 *)
(***************************************************************************)
EXTENDS Integers, FiniteSets, Sequences, TLC

\* ---- bounds of the model ------------------------------------------------
\* Resolution of the stopwatch: ticks in one `period` of the loop.
TicksPerPeriod == 2
\* Longest time a board lookup or a pin write takes to complete, and longest
\* time a sleep ends after its deadline, in ticks.
MaxLatency == 1
\* Number of framework calls (set_position / close) that may be in flight.
NumCallers == 2
\* Number of valid set_position and close calls invoked in one run.
MaxCalls == 3

Callers == 1..NumCallers
\* Every task is created by one set_position call.
TaskIds == 1..MaxCalls

\* Arguments passed to set_position: the two valid ones and two invalid ones.
ValidPositions == {0, 1}
Positions == {-1, 0, 1, 2}

VARIABLES
    board,              \* TRUE when self.board, self.pin1, self.pin2 are set
    position,           \* self.position
    alternating_task,   \* self.alternating_task: 0 = None, else a task id
    pin1, pin2,         \* physical level of the two GPIO pins (TRUE = high)
    tasks,              \* the asyncio tasks created for _alternate_pins
    callers,            \* the set_position / close calls in flight
    last,               \* the call that returned most recently
    sinceClose,         \* "never": no close has returned; "quiet": a close
                        \* has returned and no set_position was invoked since
                        \* that close was invoked; "called": one was
    calls,              \* number of valid set_position and close calls so far
    lastValid,          \* <<p>>: p is the argument of the most recent
                        \* set_position call that passed the argument check;
                        \* <<>>: there was no such call yet
    config,             \* the attributes of the ComponentConfig of the driver
    validated,          \* what validate_config(config) returned or raised
    highFor,            \* per pin: time the pin has been high for, in ticks
    lastHigh            \* per pin: how long its last completed high phase
                        \* lasted, in ticks (0: none completed yet)

vars == <<board, position, alternating_task, pin1, pin2, tasks, callers, last,
          sinceClose, calls, lastValid, config, validated, highFor, lastHigh>>

\* The configuration and its validation are settled before a driver serves
\* calls; the stopwatch of the pins runs in TimedSpec only.
configVars == <<config, validated>>
timeVars == <<highFor, lastHigh>>

\* ---- tasks ---------------------------------------------------------------
\* pc of a task: "none" (not created), "start" (created, first step not yet
\* run), the line of the await it is suspended at, or how it ended.
\* must_cancel: cancel() was called and CancelledError is not yet delivered.
\* exitLow: the task has ended and both pins were low when it ended.
TaskRunningPc == {"start", "L130", "L131", "L141", "L142", "L143",
                  "L146", "L147", "L148", "L151", "L152"}
TaskDonePc == {"cancelled", "failed"}

NoTask == [pc |-> "none", must_cancel |-> FALSE, exitLow |-> FALSE]

Created(t) == tasks[t].pc # "none"
Done(t) == tasks[t].pc \in TaskDonePc
Active(t) == tasks[t].pc \in TaskRunningPc
ActiveTasks == {t \in TaskIds : Active(t)}
NumCreated == Cardinality({t \in TaskIds : Created(t)})

\* ---- calls ---------------------------------------------------------------
\* op: "none" | "set_position" | "close"; arg: the position argument;
\* pc: "idle", or the line of the await the call is suspended at;
\* awaited: the task the call cancelled and awaits (0 = none);
\* raced: a set_position was invoked while the call was in flight;
\* hwerr: a hardware I/O error was raised into the call (by one of its own
\*        board/pin operations or by the task it awaited).
NoCall == [op |-> "none", arg |-> 0, pc |-> "idle", awaited |-> 0,
           raced |-> FALSE, hwerr |-> FALSE]

\* last: op, arg, hwerr of the call that returned, and
\* ret: "ok", or the error raised to the caller: "invalid" (ValueError),
\*      "hw" (hardware I/O error), "attr" (AttributeError: board is None);
\* val: the integer returned by get_position or get_number_of_positions
\*      (0 for the calls that return None);
\* tick: flips at every return of a set_position or close.
NoReturn ==
    [op |-> "none", arg |-> 0, hwerr |-> FALSE, ret |-> "none", val |-> 0,
     tick |-> 0]

\* ---- configuration: Solenoid.validate_config and Solenoid.new -------------
\* The attributes the driver reads (lines 72-74, 46-52).
ConfigKeys == {"board", "pin1", "pin2"}

\* Strings a configuration may give: the empty one and two names.
Names == {"x", "y"}
Texts == {""} \cup Names

\* What `config.attributes.fields.get(key)` yields: None when the key is
\* missing (kind "missing"), otherwise a protobuf Value that holds a string
\* (kind "string") or something else, such as the number of `"pin1": 11`
\* (kind "number").
Missing == [kind |-> "missing", text |-> ""]
Number == [kind |-> "number", text |-> ""]
String(s) == [kind |-> "string", text |-> s]
FieldValues == {Missing, Number} \cup {String(s) : s \in Texts}
Configs == [ConfigKeys -> FieldValues]

\* `not v` of lines 76-80: None is falsy, a Value message is truthy.
IsNone(v) == v.kind = "missing"

\* `v.string_value`: the string the Value holds, and the empty string when
\* the Value holds no string.
string_value(v) == IF v.kind = "string" THEN v.text ELSE ""

\* validate_config raised ValueError naming attribute k (lines 77, 79, 81).
Rejected(k) == [status |-> "ValueError", attribute |-> k, required |-> <<>>, optional |-> <<>>]

\* validate_config returned (line 84).
Accepted(req, opt) == [status |-> "ok", attribute |-> "", required |-> req, optional |-> opt]

\* validate_config was not called yet.
NotValidated == [status |-> "none", attribute |-> "", required |-> <<>>, optional |-> <<>>]

\* A validate_config that forgets to check pin2.
validate_config_without_pin2(cfg) ==
    LET board_name == cfg["board"]
        p1 == cfg["pin1"]
    IN IF IsNone(board_name) \/ string_value(board_name) = ""
       THEN Rejected("board")
       ELSE IF IsNone(p1) \/ string_value(p1) = ""
       THEN Rejected("pin1")
       ELSE Accepted(<<string_value(board_name)>>, <<>>)

\* Solenoid.validate_config (lines 56-84).
validate_config(cfg) ==
    LET board_name == cfg["board"]
        p1 == cfg["pin1"]
        p2 == cfg["pin2"]
    IN IF IsNone(board_name) \/ string_value(board_name) = ""
       THEN Rejected("board")
       ELSE IF IsNone(p1) \/ string_value(p1) = ""
       THEN Rejected("pin1")
       ELSE IF IsNone(p2) \/ string_value(p2) = ""
       THEN Rejected("pin2")
       ELSE Accepted(<<string_value(board_name)>>, <<>>)

\* The configuration of the driver whose calls Spec follows.
ServedConfig == [board |-> String("x"), pin1 |-> String("x"), pin2 |-> String("y")]

InFlight(c) == callers[c].pc # "idle"
\* A new call takes the lowest free slot.
Slot(c) == ~InFlight(c) /\ \A d \in Callers : d < c => InFlight(d)

\* The two pins.
Pins == {1, 2}

\* Solenoid.__init__ (lines 22-28): the state of a driver object before
\* `new` binds it; both pins are low, no call was made, no time has passed.
Constructed ==
    /\ position = 0
    /\ alternating_task = 0
    /\ pin1 = FALSE
    /\ pin2 = FALSE
    /\ tasks = [t \in TaskIds |-> NoTask]
    /\ callers = [c \in Callers |-> NoCall]
    /\ last = NoReturn
    /\ sinceClose = "never"
    /\ calls = 0
    /\ lastValid = <<>>
    /\ highFor = [n \in Pins |-> 0]
    /\ lastHigh = [n \in Pins |-> 0]

\* A driver whose configuration passed validate_config, either bound to its
\* board by `new` (board) or only constructed (~board).
Init ==
    /\ board \in BOOLEAN
    /\ Constructed
    /\ config = ServedConfig
    /\ validated = validate_config(ServedConfig)

\* validate_config(config) is called (lines 56-84): a classmethod, it has
\* no driver to change.
ValidateConfig ==
    /\ validated' = validate_config(config)
    /\ UNCHANGED <<board, position, alternating_task, pin1, pin2, tasks, callers,
                   last, sinceClose, calls, lastValid, config, timeVars>>

\* Solenoid.new (lines 30-54), which the framework calls once the
\* configuration passed validation: the board handle is taken from the
\* dependencies and the pin names from the configuration.
New ==
    /\ validated.status = "ok"
    /\ ~board
    /\ board' = TRUE
    /\ UNCHANGED <<position, alternating_task, pin1, pin2, tasks, callers,
                   last, sinceClose, calls, lastValid, configVars, timeVars>>

\* A configuration arrives, is validated, and the driver is built.
ConfigInit ==
    /\ board = FALSE
    /\ Constructed
    /\ config \in Configs
    /\ validated = NotValidated

ConfigNext ==
    \/ ValidateConfig
    \/ New

ConfigSpec == ConfigInit /\ [][ConfigNext]_vars

\* ---- the alternation task: Solenoid._alternate_pins ----------------------
\* The pin operation a task or call is suspended in at a given line:
\* <<pin, level>>, or <<0, FALSE>> when the await is no pin write.
WriteAt(pc) ==
    CASE pc \in {"L141"} -> <<1, TRUE>>
      [] pc \in {"L142"} -> <<2, FALSE>>
      [] pc \in {"L146"} -> <<1, FALSE>>
      [] pc \in {"L147"} -> <<2, TRUE>>
      [] pc \in {"L151", "L122", "L180"} -> <<1, FALSE>>
      [] pc \in {"L152", "L123", "L181"} -> <<2, FALSE>>
      [] OTHER -> <<0, FALSE>>

\* Level of pin n after the operation suspended in at pc has completed.
PinAfter(n, pc, old) == IF WriteAt(pc)[1] = n THEN WriteAt(pc)[2] ELSE old

\* Awaits that talk to the board or a pin, and so can raise a hardware error.
TaskHwPc == {"L130", "L131", "L141", "L142", "L146", "L147", "L151", "L152"}

\* Line 136: `period = 1.0 / 120.0`, in seconds, as the fraction
\* <<numerator, denominator>>.
PeriodNumerator == 1
PeriodDenominator == 120
period == <<PeriodNumerator, PeriodDenominator>>

\* No wait.
NoWait == <<0, 1>>

\* Lines 143 and 148: `await asyncio.sleep(period)`; the duration asked for
\* at the await of pc (NoWait when the await is no sleep).
SleepAt(pc) == IF pc \in {"L143", "L148"} THEN period ELSE NoWait

\* The operation a task is suspended in at pc: a write of `level` to `pin`
\* (pin 0: no write) or a wait of `wait` seconds.
OpAt(pc) == [pin |-> WriteAt(pc)[1], level |-> WriteAt(pc)[2], wait |-> SleepAt(pc)]

\* The awaits of the body of `while True` (lines 140-148), in source order.
BodyLines == <<"L141", "L142", "L143", "L146", "L147", "L148">>

\* A loop body without its second wait.
TaskNextPcOneWait(pc) ==
    CASE pc = "start" -> "L130"
      [] pc = "L130" -> "L131"
      [] pc = "L131" -> "L141"
      [] pc = "L141" -> "L142"
      [] pc = "L142" -> "L143"
      [] pc = "L143" -> "L146"
      [] pc = "L146" -> "L147"
      [] pc = "L147" -> "L141"
      [] pc = "L148" -> "L141"
      [] pc = "L151" -> "L152"
      [] pc = "L152" -> "cancelled"

\* A loop body that is run once instead of forever.
TaskNextPcSingleRound(pc) ==
    CASE pc = "start" -> "L130"
      [] pc = "L130" -> "L131"
      [] pc = "L131" -> "L141"
      [] pc = "L141" -> "L142"
      [] pc = "L142" -> "L143"
      [] pc = "L143" -> "L146"
      [] pc = "L146" -> "L147"
      [] pc = "L147" -> "L148"
      [] pc = "L148" -> "cancelled"
      [] pc = "L151" -> "L152"
      [] pc = "L152" -> "cancelled"

\* The await that follows the one at pc when it completes normally.
TaskNextPc(pc) ==
    CASE pc = "start" -> "L130"
      [] pc = "L130" -> "L131"
      [] pc = "L131" -> "L141"
      [] pc = "L141" -> "L142"
      [] pc = "L142" -> "L143"
      [] pc = "L143" -> "L146"
      [] pc = "L146" -> "L147"
      [] pc = "L147" -> "L148"
      [] pc = "L148" -> "L141"
      [] pc = "L151" -> "L152"
      [] pc = "L152" -> "cancelled"

\* Where CancelledError thrown at the await of pc takes the task: inside the
\* try block (lines 139-148) the except block is entered; anywhere else the
\* exception leaves the coroutine and the task ends cancelled.
InTry(pc) == pc \in {"L141", "L142", "L143", "L146", "L147", "L148"}

\* A loop that catches CancelledError and goes on with its next round.
TaskCancelPcGoesOn(pc) == IF InTry(pc) THEN "L141" ELSE "cancelled"

TaskCancelPc(pc) == IF InTry(pc) THEN "L151" ELSE "cancelled"

\* Where an exception other than CancelledError raised at pc takes the task:
\* `except asyncio.CancelledError` does not catch it.
TaskErrorPc(pc) == "failed"

\* The task record after moving to next, the pins then being at levels a, b.
Moved(next, a, b) ==
    [pc |-> next, must_cancel |-> FALSE,
     exitLow |-> next \in TaskDonePc /\ ~a /\ ~b]

\* One step of the task with no cancellation pending: the operation it is
\* suspended in completes and the coroutine runs to its next await.
TaskRun(t) ==
    /\ Active(t)
    /\ ~tasks[t].must_cancel
    /\ LET pc == tasks[t].pc
           next == IF pc = "start" /\ ~board THEN TaskErrorPc(pc) ELSE TaskNextPc(pc)
       IN /\ pin1' = PinAfter(1, pc, pin1)
          /\ pin2' = PinAfter(2, pc, pin2)
          /\ tasks' = [tasks EXCEPT ![t] = Moved(next, pin1', pin2')]
    /\ UNCHANGED <<board, position, alternating_task, callers, last, sinceClose, calls, lastValid>>

\* A step of the task in a model that does not follow time.
TaskStep(t) == TaskRun(t) /\ UNCHANGED <<configVars, timeVars>>

\* The board or pin operation the task is suspended in raises a hardware
\* I/O error; the pin keeps its level.
TaskFail(t) ==
    /\ Active(t)
    /\ ~tasks[t].must_cancel
    /\ tasks[t].pc \in TaskHwPc
    /\ tasks' = [tasks EXCEPT ![t] = Moved(TaskErrorPc(tasks[t].pc), pin1, pin2)]
    /\ UNCHANGED <<board, position, alternating_task, pin1, pin2, callers, last,
                   sinceClose, calls, lastValid>>
    /\ UNCHANGED <<configVars, timeVars>>

\* A pending cancellation is delivered: CancelledError is thrown at the
\* await the task is suspended at.  A pin write that was interrupted may or
\* may not have reached the pin.
TaskCancelled(t) ==
    /\ Active(t)
    /\ tasks[t].must_cancel
    /\ LET pc == tasks[t].pc
       IN /\ pin1' \in {pin1, PinAfter(1, pc, pin1)}
          /\ pin2' \in {pin2, PinAfter(2, pc, pin2)}
          /\ tasks' = [tasks EXCEPT ![t] = Moved(TaskCancelPc(pc), pin1', pin2')]
    /\ UNCHANGED <<board, position, alternating_task, callers, last, sinceClose, calls, lastValid>>
    /\ UNCHANGED <<configVars, timeVars>>

\* ---- set_position and close ----------------------------------------------
\* A check that rejects only negative positions.
ArgumentOkNonNegative(p) == p >= 0

\* Line 105: the argument check.
ArgumentOk(p) == p \in ValidPositions

\* Lines 111 and 168: `self.alternating_task and not self.alternating_task.done()`.
LoopRunning == alternating_task # 0 /\ ~Done(alternating_task)

\* Lines 112 and 169: Task.cancel() on a task that is not done.
Cancel(t) == [tasks EXCEPT ![t].must_cancel = TRUE]

\* asyncio.create_task(self._alternate_pins()) (line 126): a new task that
\* has not run yet.
NewTask == [NoTask EXCEPT !.pc = "start"]

\* The record left by a call that returned r.
Returned(call, r) ==
    [op |-> call.op, arg |-> call.arg, hwerr |-> call.hwerr, ret |-> r,
     val |-> 0, tick |-> 1 - last.tick]

\* set_position was invoked: every call in flight has been raced.
Raced(cs) ==
    [d \in Callers |->
        IF cs[d].pc # "idle" THEN [cs[d] EXCEPT !.raced = TRUE] ELSE cs[d]]

\* Lines 118-126: what set_position does once no loop is left to wait for;
\* cs are the calls in flight.
\* For position 0 it goes on to the pin lookups (AttributeError when the
\* board was never set); for any other position it creates the task and
\* returns.
SetPositionBody(c, call, cs) ==
    IF call.arg = 0
    THEN /\ IF board
            THEN /\ callers' = [cs EXCEPT ![c] = [call EXCEPT !.pc = "L120"]]
                 /\ UNCHANGED last
            ELSE /\ callers' = [cs EXCEPT ![c] = NoCall]
                 /\ last' = Returned(call, "attr")
         /\ UNCHANGED <<tasks, alternating_task>>
    ELSE /\ tasks' = [tasks EXCEPT ![NumCreated + 1] = NewTask]
         /\ alternating_task' = NumCreated + 1
         /\ callers' = [cs EXCEPT ![c] = NoCall]
         /\ last' = Returned(call, "ok")

\* set_position(p) with p outside {0, 1}: ValueError (lines 105-106).
SetPositionInvalid(c, p) ==
    /\ Slot(c)
    /\ ~ArgumentOk(p)
    /\ last' = Returned([NoCall EXCEPT !.op = "set_position", !.arg = p], "invalid")
    /\ UNCHANGED <<board, position, alternating_task, pin1, pin2, tasks, callers,
                   sinceClose, calls, lastValid>>
    /\ UNCHANGED <<configVars, timeVars>>

\* A set_position that stores the position only after the loop it cancelled
\* has ended.
SetPositionWritingLate(c, p) ==
    /\ Slot(c)
    /\ ArgumentOk(p)
    /\ calls < MaxCalls
    /\ calls' = calls + 1
    /\ position' = IF LoopRunning THEN position ELSE p
    /\ lastValid' = <<p>>
    /\ sinceClose' = IF sinceClose = "quiet" THEN "called" ELSE sinceClose
    /\ LET call == [NoCall EXCEPT !.op = "set_position", !.arg = p]
       IN IF LoopRunning
          THEN /\ tasks' = Cancel(alternating_task)
               /\ callers' = [Raced(callers) EXCEPT ![c] =
                      [call EXCEPT !.pc = "L114", !.awaited = alternating_task]]
               /\ UNCHANGED <<alternating_task, last>>
          ELSE SetPositionBody(c, call, Raced(callers))
    /\ UNCHANGED <<board, pin1, pin2>>
    /\ UNCHANGED <<configVars, timeVars>>

\* set_position(p) is invoked and runs to its first suspension point
\* (lines 105-116, then 118-126 when there is no loop to cancel).
SetPosition(c, p) ==
    /\ Slot(c)
    /\ ArgumentOk(p)
    /\ calls < MaxCalls
    /\ calls' = calls + 1
    /\ position' = p
    /\ lastValid' = <<p>>
    /\ sinceClose' = IF sinceClose = "quiet" THEN "called" ELSE sinceClose
    /\ LET call == [NoCall EXCEPT !.op = "set_position", !.arg = p]
       IN IF LoopRunning
          THEN /\ tasks' = Cancel(alternating_task)
               /\ callers' = [Raced(callers) EXCEPT ![c] =
                      [call EXCEPT !.pc = "L114", !.awaited = alternating_task]]
               /\ UNCHANGED <<alternating_task, last>>
          ELSE SetPositionBody(c, call, Raced(callers))
    /\ UNCHANGED <<board, pin1, pin2>>
    /\ UNCHANGED <<configVars, timeVars>>

\* Lines 113-116 and 170-173: `await self.alternating_task` inside
\* `try ... except asyncio.CancelledError: pass` raises exactly when the
\* awaited task ended with an exception other than CancelledError.
AwaitRaises(t) == tasks[t].pc = "failed"

\* A set_position that swallows the error like close does.
SetPositionSwallowsError(call) == [pc |-> "idle", ret |-> "ok"]

\* What a hardware error raised into set_position (by the task it awaits at
\* line 114 or by its own operations of lines 120-123) does: no handler
\* catches it, the call ends and the error is raised to the caller.
SetPositionOnError(call) == [pc |-> "idle", ret |-> "hw"]

\* `await self.alternating_task` (line 114) returns: the awaited task is done.
SetPositionResume(c) ==
    /\ callers[c].op = "set_position"
    /\ callers[c].pc = "L114"
    /\ Done(callers[c].awaited)
    /\ IF AwaitRaises(callers[c].awaited)
       THEN LET raised == [callers[c] EXCEPT !.hwerr = TRUE]
                to == SetPositionOnError(raised)
            IN /\ IF to.pc = "idle"
                  THEN /\ callers' = [callers EXCEPT ![c] = NoCall]
                       /\ last' = Returned(raised, to.ret)
                  ELSE /\ callers' = [callers EXCEPT ![c] = [raised EXCEPT !.pc = to.pc]]
                       /\ UNCHANGED last
               /\ UNCHANGED <<tasks, alternating_task>>
       ELSE SetPositionBody(c, [callers[c] EXCEPT !.awaited = 0], callers)
    /\ UNCHANGED <<board, position, pin1, pin2, sinceClose, calls, lastValid>>
    /\ UNCHANGED <<configVars, timeVars>>

\* The awaits of a call after pc: lines 120-123 and 178-181.
CallNextPc(pc) ==
    CASE pc = "L120" -> "L121"
      [] pc = "L121" -> "L122"
      [] pc = "L122" -> "L123"
      [] pc = "L123" -> "idle"
      [] pc = "L178" -> "L179"
      [] pc = "L179" -> "L180"
      [] pc = "L180" -> "L181"
      [] pc = "L181" -> "idle"

SetPositionPc == {"L120", "L121", "L122", "L123"}
ClosePc == {"L178", "L179", "L180", "L181"}

\* set_position(0): the pin lookup or pin write it is suspended in completes
\* (lines 120-123); after the last one the call returns.
SetPositionStep(c) ==
    /\ callers[c].op = "set_position"
    /\ callers[c].pc \in SetPositionPc
    /\ pin1' = PinAfter(1, callers[c].pc, pin1)
    /\ pin2' = PinAfter(2, callers[c].pc, pin2)
    /\ LET next == CallNextPc(callers[c].pc)
       IN IF next = "idle"
          THEN /\ callers' = [callers EXCEPT ![c] = NoCall]
               /\ last' = Returned(callers[c], "ok")
          ELSE /\ callers' = [callers EXCEPT ![c].pc = next]
               /\ UNCHANGED last
    /\ UNCHANGED <<board, position, alternating_task, tasks, sinceClose, calls, lastValid>>
    /\ UNCHANGED <<configVars, timeVars>>

\* The lookup or pin write set_position is suspended in (lines 120-123)
\* raises a hardware I/O error.
SetPositionFail(c) ==
    /\ callers[c].op = "set_position"
    /\ callers[c].pc \in SetPositionPc
    /\ LET raised == [callers[c] EXCEPT !.hwerr = TRUE]
           to == SetPositionOnError(raised)
       IN IF to.pc = "idle"
          THEN /\ callers' = [callers EXCEPT ![c] = NoCall]
               /\ last' = Returned(raised, to.ret)
          ELSE /\ callers' = [callers EXCEPT ![c] = [raised EXCEPT !.pc = to.pc]]
               /\ UNCHANGED last
    /\ UNCHANGED <<board, position, alternating_task, pin1, pin2, tasks, sinceClose, calls, lastValid>>
    /\ UNCHANGED <<configVars, timeVars>>

\* Line 176: `if self.board and self.pin1 and self.pin2`.
CloseGuard == board

\* close returns r: a close that returns normally and was not raced by a
\* set_position leaves the driver closed.
CloseReturn(c, call, r) ==
    /\ callers' = [callers EXCEPT ![c] = NoCall]
    /\ last' = Returned(call, r)
    /\ sinceClose' = IF r = "ok" /\ ~call.raced THEN "quiet" ELSE sinceClose

\* Lines 175-183: what close does once no loop is left to wait for.
CloseBody(c, call) ==
    IF CloseGuard
    THEN /\ callers' = [callers EXCEPT ![c] = [call EXCEPT !.pc = "L178"]]
         /\ UNCHANGED <<last, sinceClose>>
    ELSE CloseReturn(c, call, "ok")

\* close() is invoked and runs to its first suspension point (lines 168-173,
\* then 176-179 when there is no loop to cancel).
Close(c) ==
    /\ Slot(c)
    /\ calls < MaxCalls
    /\ calls' = calls + 1
    /\ LET call == [NoCall EXCEPT !.op = "close"]
       IN IF LoopRunning
          THEN /\ tasks' = Cancel(alternating_task)
               /\ callers' = [callers EXCEPT ![c] =
                      [call EXCEPT !.pc = "L171", !.awaited = alternating_task]]
               /\ UNCHANGED <<last, sinceClose>>
          ELSE /\ CloseBody(c, call)
               /\ UNCHANGED tasks
    /\ UNCHANGED <<board, position, alternating_task, pin1, pin2, lastValid>>
    /\ UNCHANGED <<configVars, timeVars>>

\* `await self.alternating_task` (line 171) returns.  Only CancelledError is
\* caught (lines 172-173); any other exception of the task leaves close.
CloseResume(c) ==
    /\ callers[c].op = "close"
    /\ callers[c].pc = "L171"
    /\ Done(callers[c].awaited)
    /\ IF AwaitRaises(callers[c].awaited)
       THEN CloseReturn(c, [callers[c] EXCEPT !.hwerr = TRUE], "hw")
       ELSE CloseBody(c, [callers[c] EXCEPT !.awaited = 0])
    /\ UNCHANGED <<board, position, alternating_task, pin1, pin2, tasks, calls, lastValid>>
    /\ UNCHANGED <<configVars, timeVars>>

\* close: the pin lookup or pin write it is suspended in completes
\* (lines 178-181); after the last one close returns.
CloseStep(c) ==
    /\ callers[c].op = "close"
    /\ callers[c].pc \in ClosePc
    /\ pin1' = PinAfter(1, callers[c].pc, pin1)
    /\ pin2' = PinAfter(2, callers[c].pc, pin2)
    /\ IF CallNextPc(callers[c].pc) = "idle"
       THEN CloseReturn(c, callers[c], "ok")
       ELSE /\ callers' = [callers EXCEPT ![c].pc = CallNextPc(callers[c].pc)]
            /\ UNCHANGED <<last, sinceClose>>
    /\ UNCHANGED <<board, position, alternating_task, tasks, calls, lastValid>>
    /\ UNCHANGED <<configVars, timeVars>>

\* The lookup or pin write close is suspended in (lines 178-181) raises:
\* `except Exception` (line 182) logs the error and close returns normally.
CloseFail(c) ==
    /\ callers[c].op = "close"
    /\ callers[c].pc \in ClosePc
    /\ CloseReturn(c, [callers[c] EXCEPT !.hwerr = TRUE], "ok")
    /\ UNCHANGED <<board, position, alternating_task, pin1, pin2, tasks, calls, lastValid>>
    /\ UNCHANGED <<configVars, timeVars>>

\* ---- get_position and get_number_of_positions ---------------------------
\* A get_position that answers from the loop: 1 when a task is active.
PositionReadFromLoop == IF ActiveTasks # {} THEN 1 ELSE 0

\* Line 94: `return self.position`.
PositionRead == position

\* Line 163: `return 2`.
NumberOfPositions == 2

\* The record left by a read that returned v.
ReadReturned(op, v) ==
    [op |-> op, arg |-> 0, hwerr |-> FALSE, ret |-> "ok", val |-> v, tick |-> 0]

\* A get_position that resets the stored position.
GetPositionResetting ==
    /\ last' = ReadReturned("get_position", PositionRead)
    /\ position' = 0
    /\ UNCHANGED <<board, alternating_task, pin1, pin2, tasks, callers,
                   sinceClose, calls, lastValid>>
    /\ UNCHANGED <<configVars, timeVars>>

\* get_position() (lines 86-94): the coroutine has no await, it runs in one
\* piece and returns the stored position.
GetPosition ==
    /\ last' = ReadReturned("get_position", PositionRead)
    /\ UNCHANGED <<board, position, alternating_task, pin1, pin2, tasks, callers,
                   sinceClose, calls, lastValid>>
    /\ UNCHANGED <<configVars, timeVars>>

\* get_number_of_positions() (lines 155-163): no await either.
GetNumberOfPositions ==
    /\ last' = ReadReturned("get_number_of_positions", NumberOfPositions)
    /\ UNCHANGED <<board, position, alternating_task, pin1, pin2, tasks, callers,
                   sinceClose, calls, lastValid>>
    /\ UNCHANGED <<configVars, timeVars>>

\* ---- the alternation task with a stopwatch ------------------------------
\* A duration of w seconds (a fraction) in ticks.
Ticks(w) == (w[1] * PeriodDenominator * TicksPerPeriod) \div (w[2] * PeriodNumerator)

\* How long the await of pc may take.  asyncio.sleep(period) (lines 143,
\* 148) returns when the event loop runs its timers after the deadline: no
\* earlier than `period`, and later when the loop is busy.  A call to the
\* board or to a pin returns when the board has answered, at once at best.
\* The first step of a task runs as soon as the task is scheduled.
Durations(pc) ==
    IF SleepAt(pc) # NoWait
    THEN Ticks(SleepAt(pc))..(Ticks(SleepAt(pc)) + MaxLatency)
    ELSE IF pc \in TaskHwPc THEN 0..MaxLatency
    ELSE {0}

\* Level of pin n when pin1 is at a and pin2 at b.
LevelOf(n, a, b) == IF n = 1 THEN a ELSE b

\* A step of the task whose awaited operation took d ticks: a pin that stays
\* high has been high for d ticks more; a pin that goes low ends a high
\* phase.
TimedTaskStep(t, d) ==
    /\ TaskRun(t)
    /\ d \in Durations(tasks[t].pc)
    /\ highFor' = [n \in Pins |->
           IF LevelOf(n, pin1, pin2) /\ LevelOf(n, pin1', pin2')
           THEN highFor[n] + d ELSE 0]
    /\ lastHigh' = [n \in Pins |->
           IF LevelOf(n, pin1, pin2) /\ ~LevelOf(n, pin1', pin2')
           THEN highFor[n] + d ELSE lastHigh[n]]
    /\ UNCHANGED configVars

\* set_position(1) on a driver with no loop running (line 111 is false):
\* the call creates the task (line 126) and returns without waiting.
SwitchOn(c) == ~LoopRunning /\ SetPosition(c, 1)

\* A bound driver is switched on once and its loop then runs undisturbed
\* against the stopwatch: the board answers every operation, and no other
\* call is made while the loop runs.
TimedInit == Init /\ board

TimedNext ==
    \/ \E c \in Callers : SwitchOn(c)
    \/ \E t \in TaskIds, d \in 0..(Ticks(period) + MaxLatency) : TimedTaskStep(t, d)

TimedSpec == TimedInit /\ [][TimedNext]_vars

Next ==
    \/ \E c \in Callers, p \in Positions : SetPosition(c, p)
    \/ \E c \in Callers, p \in Positions : SetPositionInvalid(c, p)
    \/ \E c \in Callers : SetPositionResume(c)
    \/ \E c \in Callers : SetPositionStep(c)
    \/ \E c \in Callers : SetPositionFail(c)
    \/ \E c \in Callers : Close(c)
    \/ \E c \in Callers : CloseResume(c)
    \/ \E c \in Callers : CloseStep(c)
    \/ \E c \in Callers : CloseFail(c)
    \/ \E t \in TaskIds : TaskStep(t)
    \/ \E t \in TaskIds : TaskFail(t)
    \/ \E t \in TaskIds : TaskCancelled(t)
    \/ GetPosition
    \/ GetNumberOfPositions

Spec == Init /\ [][Next]_vars

\* The event loop runs every task and every coroutine that is ready, and
\* the board answers every lookup and every pin write, with a result or with
\* an error: a task or a call that can take a step eventually takes one.
Fairness ==
    /\ \A t \in TaskIds :
          /\ WF_vars(TaskStep(t) \/ TaskFail(t))
          /\ WF_vars(TaskCancelled(t))
    /\ \A c \in Callers :
          /\ WF_vars(SetPositionResume(c))
          /\ WF_vars(SetPositionStep(c) \/ SetPositionFail(c))
          /\ WF_vars(CloseResume(c))
          /\ WF_vars(CloseStep(c) \/ CloseFail(c))

LiveSpec == Spec /\ Fairness

TypeOK ==
    /\ board \in BOOLEAN
    /\ position \in ValidPositions
    /\ alternating_task \in 0..MaxCalls
    /\ lastValid \in {<<>>} \cup {<<p>> : p \in ValidPositions}

\* ---- properties ----------------------------------------------------------
\* A call returned in this step.
ReturnedNow == last' # last

\* C1: at most one alternation task of a configured driver is active (created
\* and not yet terminated) in every reachable state.
C1_AtMostOneLoop == board => Cardinality(ActiveTasks) <= 1

\* C2: a set_position call that found a loop running goes on (to its pin
\* lookups and writes for position 0, to create_task for position 1) only
\* when the loop it awaited has terminated and has left both pins low.
C2_CancellationFirst ==
    [][\A c \in Callers :
          ( /\ callers[c].op = "set_position"
            /\ callers[c].pc = "L114"
            /\ \/ callers'[c].pc = "L120"
               \/ callers'[c].pc = "idle" /\ ReturnedNow /\ last'.ret = "ok" )
          => (Done(callers[c].awaited) /\ tasks[callers[c].awaited].exitLow)]_vars

\* Cancellation was requested for task t: it is pending, or it was delivered
\* and the task is in its except block.
CancelRequested(t) == tasks[t].must_cancel \/ tasks[t].pc \in {"L151", "L152"}

\* Task t has issued the pin1-low write (line 151) and the pin2-low write
\* (line 152) of its cleanup.
BothLowIssued(t) == tasks[t].pc = "L152"

\* C3: a task that terminates after its cancellation was requested has
\* attempted both the pin1-low and the pin2-low write of the cleanup.
C3_CleanupAttemptsBoth ==
    [][\A t \in TaskIds :
          (board /\ Active(t) /\ Done(t)' /\ CancelRequested(t))
          => BothLowIssued(t)]_vars

\* C4: at the moment an alternation task terminates, for whatever reason,
\* both pins are low.
C4_LowOnExit == \A t \in TaskIds : Done(t) => tasks[t].exitLow

\* C5: close never returns an error.
C5_CloseNeverFails == last.op = "close" => last.ret = "ok"

\* C6: set_position(p) with p outside {0, 1} fails with the invalid-argument
\* error and changes nothing: position, pins, tasks, the task handle and the
\* calls in flight stay as they are, and no call with such an argument is
\* ever in flight.
C6_InvalidRejected ==
    [][ /\ \A c \in Callers : callers'[c].arg \in {0, 1}
        /\ (ReturnedNow /\ last'.op = "set_position" /\ last'.arg \notin {0, 1})
           => ( /\ last'.ret = "invalid"
                /\ UNCHANGED <<board, position, alternating_task, pin1, pin2,
                               tasks, callers>> ) ]_vars

\* C6 witness: an invalid set_position was rejected while a loop was toggling
\* the pins and the position was 1.
C6_Witness ==
    /\ last.op = "set_position" /\ last.arg = 2 /\ last.ret = "invalid"
    /\ position = 1
    /\ \E t \in TaskIds : tasks[t].pc = "L143" /\ pin1

\* The call that returns in this step was not overtaken by a set_position
\* invoked while it was in flight.
NotRaced ==
    \A c \in Callers :
        (callers[c].pc # "idle" /\ callers'[c].pc = "idle") => ~callers[c].raced

\* C7: when set_position(0) returns successfully on a configured driver, and
\* no other set_position was invoked while it was in flight, no alternation
\* task is active and both pins are low.
C7_OffIsSafe ==
    [][(board /\ ReturnedNow /\ last'.op = "set_position" /\ last'.arg = 0
          /\ last'.ret = "ok" /\ NotRaced)
          => (~pin1' /\ ~pin2' /\ ActiveTasks' = {})]_vars

\* C8: every close of a configured driver, called any number of times and not
\* overtaken by a set_position, returns without an error and, unless one of
\* its own pin operations failed, both pins are low and no alternation task
\* is active when it returns.
C8_CloseIdempotent ==
    [][(board /\ ReturnedNow /\ last'.op = "close" /\ NotRaced)
          => ( /\ last'.ret = "ok"
               /\ ~last'.hwerr => (~pin1' /\ ~pin2' /\ ActiveTasks' = {}) )]_vars

\* C9: once a close of a configured driver has returned, and as long as no
\* set_position was invoked after that close was invoked, no alternation
\* task is active.
C9_NoLoopAfterClose == (board /\ sinceClose = "quiet") => ActiveTasks = {}

\* C10: a hardware I/O error raised into a set_position call (by one of its
\* own lookups or pin writes, or by the cleanup of the loop it awaits) ends
\* the call with that error: it is not swallowed, and the call does not go
\* on (no retry).
C10_HwErrorPropagates ==
    /\ (last.op = "set_position" /\ last.hwerr) => last.ret = "hw"
    /\ \A c \in Callers : callers[c].op = "set_position" => ~callers[c].hwerr

\* C10 witness: set_position(1), which performs no pin operation of its own,
\* returned the hardware error of the cleanup of the loop it awaited.
C10_Witness ==
    last.op = "set_position" /\ last.arg = 1 /\ last.hwerr /\ last.ret = "hw"

\* The value get_position has to return: 0 on a fresh driver, otherwise the
\* argument of the most recent set_position call that passed the check.
ExpectedPosition == IF lastValid = <<>> THEN 0 ELSE lastValid[1]

\* C11: every get_position returns 0 when no valid set_position was invoked
\* yet and otherwise the argument of the most recent valid set_position
\* invocation (returned or still in flight); every get_number_of_positions
\* returns 2; neither changes the position, the task handle, the pins, the
\* tasks (a running loop keeps its place and no cancellation is requested)
\* or the calls in flight.
C11_PureReads ==
    [][ /\ (ReturnedNow /\ last'.op = "get_position")
           => ( /\ last'.val = ExpectedPosition
                /\ last'.ret = "ok"
                /\ UNCHANGED <<board, position, alternating_task, pin1, pin2,
                               tasks, callers, lastValid>> )
        /\ (ReturnedNow /\ last'.op = "get_number_of_positions")
           => ( /\ last'.val = 2
                /\ last'.ret = "ok"
                /\ UNCHANGED <<board, position, alternating_task, pin1, pin2,
                               tasks, callers, lastValid>> ) ]_vars

\* C11 witness: get_position returned 1 while the set_position(1) that wrote
\* it is still waiting for the old loop, which is in its cleanup.
C11_Witness ==
    /\ last.op = "get_position" /\ last.val = 1
    /\ \E c \in Callers : callers[c].pc = "L114" /\ callers[c].arg = 1
    /\ \E t \in TaskIds : tasks[t].pc = "L152"

\* C12: the stored position starts at 0 and is 0 or 1 in every state; a step
\* that changes it is the invocation of a valid set_position(p) and sets it
\* to p, and is no step of close, no step of an alternation task (normal,
\* failing, or cancelled, the cleanup included), no get_position and no
\* get_number_of_positions.
C12_PositionFrame ==
    /\ position = 0
    /\ [][ /\ position' \in {0, 1}
           /\ (position' # position)
              => /\ \E c \in Callers, p \in ValidPositions :
                       SetPosition(c, p) /\ position' = p
                 /\ ~ \E c \in Callers :
                         Close(c) \/ CloseResume(c) \/ CloseStep(c) \/ CloseFail(c)
                 /\ ~ \E t \in TaskIds :
                         TaskStep(t) \/ TaskFail(t) \/ TaskCancelled(t)
                 /\ ~ GetPosition
                 /\ ~ GetNumberOfPositions ]_vars

\* C12 witness: the position is still 1 after a close has returned, the loop
\* it cancelled has run its cleanup to the end, and both reads were served.
C12_Witness ==
    /\ position = 1
    /\ last.op = "close" /\ last.ret = "ok"
    /\ \E t \in TaskIds : tasks[t].pc = "cancelled" /\ tasks[t].exitLow

\* The order of operations C13 states: pin1 high, pin2 low, wait one
\* half-period, pin1 low, pin2 high, wait one half-period.
AlternationOrder ==
    << [pin |-> 1, level |-> TRUE, wait |-> NoWait],
       [pin |-> 2, level |-> FALSE, wait |-> NoWait],
       [pin |-> 0, level |-> FALSE, wait |-> period],
       [pin |-> 1, level |-> FALSE, wait |-> NoWait],
       [pin |-> 2, level |-> TRUE, wait |-> NoWait],
       [pin |-> 0, level |-> FALSE, wait |-> period] >>

\* Place of the await of pc in the loop body.
LoopPosition(pc) == CHOOSE i \in 1..Len(BodyLines) : BodyLines[i] = pc

\* C13: a task enters its loop at the pin1-high write; every step of a task
\* that stays in the loop (no cancellation delivered, no operation failed)
\* completes the operation of its place in the stated order, changing the
\* pin that operation names and no other, and issues the operation of the
\* next place, the first one again after the sixth; the waits of the third
\* and the sixth place last the same `period`.
C13_LoopOrder ==
    [][\A t \in TaskIds :
          LET pc == tasks[t].pc
              pc2 == tasks'[t].pc
          IN /\ (Active(t) /\ ~InTry(pc) /\ InTry(pc2)) => pc2 = BodyLines[1]
             /\ (InTry(pc) /\ InTry(pc2) /\ pc2 # pc)
                => LET i == LoopPosition(pc)
                       j == LoopPosition(pc2)
                       op == AlternationOrder[i]
                   IN /\ j = (i % Len(AlternationOrder)) + 1
                      /\ OpAt(pc) = op
                      /\ OpAt(pc2) = AlternationOrder[j]
                      /\ pin1' = IF op.pin = 1 THEN op.level ELSE pin1
                      /\ pin2' = IF op.pin = 2 THEN op.level ELSE pin2 ]_vars

\* C13 witness: a task is in the second wait of a later round of its loop
\* (it completed pin1 low, pin2 high) while the position is 1.
C13_Witness ==
    /\ position = 1
    /\ \E t \in TaskIds : tasks[t].pc = "L148" /\ ~tasks[t].must_cancel
    /\ ~pin1 /\ pin2

\* Attribute k of the configuration is missing or is an empty string.
MissingOrEmpty(k) == config[k] = Missing \/ config[k] = String("")

\* C14 as stated: validate_config rejects a configuration exactly when one
\* of board, pin1, pin2 is missing or is an empty string, and returns the
\* board's name as the only required dependency, and no optional one, for
\* every other configuration.
C14_ValidateConfigAsStated ==
    validated.status # "none"
    => IF \E k \in ConfigKeys : MissingOrEmpty(k)
       THEN validated.status = "ValueError"
       ELSE /\ validated.status = "ok"
            /\ validated.required = <<string_value(config["board"])>>
            /\ validated.optional = <<>>

\* Attribute k of the configuration is missing, is an empty string, or is
\* not a string.
NoName(k) == MissingOrEmpty(k) \/ config[k].kind # "string"

\* C14, amended: validate_config rejects a configuration exactly when one
\* of board, pin1, pin2 is missing, is an empty string or is not a string,
\* and returns the board's name as the only required dependency, and no
\* optional one, for every other configuration; a validation step leaves
\* the board and pin handles of the driver unresolved and touches neither
\* pin.
C14_ValidateConfig ==
    /\ [](validated.status # "none"
          => IF \E k \in ConfigKeys : NoName(k)
             THEN validated.status = "ValueError"
             ELSE /\ validated.status = "ok"
                  /\ validated.required = <<config["board"].text>>
                  /\ validated.optional = <<>>)
    /\ [][validated' # validated
            => (~board /\ UNCHANGED <<board, pin1, pin2, tasks>>)]_vars

\* C14 witness: a configuration with three names was accepted with the
\* board's name as its one dependency, and the driver is not bound yet.
C14_Witness ==
    /\ validated.status = "ok"
    /\ validated.required = <<"y">>
    /\ config["pin1"] = String("x")
    /\ ~board

\* C15: both waits of the loop ask for 1/120 second whatever the
\* configuration, and every completed high phase of either pin lasted
\* exactly 1/120 second (so that a full cycle takes 1/60 second).
C15_SixtyHertz ==
    /\ \A pc \in TaskRunningPc :
          SleepAt(pc) # NoWait => SleepAt(pc) = <<1, 120>>
    /\ \A n \in Pins : lastHigh[n] \in {0, Ticks(<<1, 120>>)}

\* C16: pin1 and pin2 are never high at the same time.
C16_Antiphase == ~(pin1 /\ pin2)

\* No set_position or close call is in flight.
Quiescent == \A c \in Callers : ~InFlight(c)

\* C17: whenever no call is in flight on a bound driver, an alternation task
\* is active only if the stored position is 1.
C17_PositionLoopAgreement ==
    (board /\ Quiescent /\ ActiveTasks # {}) => position = 1

\* Task t has not been cancelled: no cancellation is pending and it is not
\* in its cleanup.
Uncancelled(t) ==
    Active(t) /\ ~tasks[t].must_cancel /\ tasks[t].pc \notin {"L151", "L152"}

\* Task t is a loop: the set_position(1) that created it has returned
\* (line 126 is its last) and no call has cancelled it.
SwitchedOn(t) == Uncancelled(t)

\* C18: a loop that set_position(1) has started stays active and uncancelled
\* in every step in which no set_position or close is invoked and no
\* operation of the loop fails (on a driver that was never bound to a board
\* the first lookup fails); and as long as it does, it again and again
\* completes the pin1-high write and the pin2-high write.
C18_LoopLives ==
    /\ [][\A t \in TaskIds :
            SwitchedOn(t)
            => (SwitchedOn(t)' \/ calls' # calls \/ tasks'[t].pc = "failed")]_vars
    /\ \A t \in TaskIds :
          /\ SwitchedOn(t) ~> ((tasks[t].pc = "L142" /\ pin1) \/ ~SwitchedOn(t))
          /\ SwitchedOn(t) ~> ((tasks[t].pc = "L148" /\ pin2) \/ ~SwitchedOn(t))

\* C18 witness: no call is in flight, the position is 1, and the loop in the
\* task handle, never cancelled, has driven pin2 high in its round.
C18_Witness ==
    /\ board /\ Quiescent /\ position = 1
    /\ alternating_task # 0
    /\ Uncancelled(alternating_task)
    /\ tasks[alternating_task].pc = "L148" /\ pin2 /\ ~pin1

\* C19: every set_position and every close call in flight eventually
\* returns, and every task whose cancellation was requested eventually
\* terminates.
C19_Termination ==
    /\ \A c \in Callers : InFlight(c) ~> ~InFlight(c)
    /\ \A t \in TaskIds : (Active(t) /\ CancelRequested(t)) ~> Done(t)

\* C19 witness: a set_position and a close both wait for the same loop, which
\* both cancelled and which is in its cleanup.
C19_Witness ==
    \E c, d \in Callers :
        /\ callers[c].op = "set_position" /\ callers[c].pc = "L114"
        /\ callers[d].op = "close" /\ callers[d].pc = "L171"
        /\ callers[c].awaited = callers[d].awaited
        /\ tasks[callers[c].awaited].pc \in {"L151", "L152"}

\* C20: the step in which a valid set_position(p) is invoked and suspends
\* has already stored p and has touched no pin; every get_position returns
\* the stored position, which is p while a set_position(p) that no later
\* set_position has overtaken is suspended (waiting for the old loop at line
\* 114 or in its own pin operations); and when such a set_position ends with
\* a hardware error the stored position is p.
C20_PositionWrittenFirst ==
    [][ /\ \A c \in Callers :
              (~InFlight(c) /\ InFlight(c)' /\ callers'[c].op = "set_position")
              => (position' = callers'[c].arg /\ UNCHANGED <<pin1, pin2>>)
        /\ (ReturnedNow /\ last'.op = "get_position")
           => /\ last'.val = position
              /\ \A c \in Callers :
                    ( /\ callers[c].op = "set_position"
                      /\ InFlight(c)
                      /\ ~callers[c].raced )
                    => last'.val = callers[c].arg
        /\ ( /\ ReturnedNow
             /\ last'.op = "set_position"
             /\ last'.ret = "hw"
             /\ NotRaced )
           => position' = last'.arg ]_vars

\* C20 witness: get_position returned 0 while the set_position(0) that
\* stored it is still waiting at line 114 for a loop that has not ended.
C20_Witness ==
    /\ last.op = "get_position" /\ last.val = 0
    /\ \E c \in Callers :
          /\ callers[c].op = "set_position" /\ callers[c].arg = 0
          /\ callers[c].pc = "L114" /\ ~callers[c].raced
          /\ Active(callers[c].awaited)

====
